---------------------------- MODULE Spec2Model ----------------------------
(***************************************************************************)
(* Sega AI driver (src/src/mame/drivers/segaai.cpp): the peripheral bus    *)
(* controller of segaai_state.  The model covers the interrupt latch and   *)
(* arbiter (vdp_interrupt, upd7759_drq_w, irq_callback, update_irq_state), *)
(* the two IRQ enable ports (0x16, 0x17), the touchpad latches and scanner, *)
(* the 8255 port callbacks, the speech control port (0x0b) and the I/O port *)
(* map (io_map).                                                           *)
(***************************************************************************)
EXTENDS Integers, Naturals, Sequences, FiniteSets, TLC

VARIABLES
    m_irq_active,        \* u8: sticky pending bits
    m_irq_enabled,       \* u8: enable mask (ports 0x16 / 0x17)
    m_prev_v9938_irq,    \* int: last level seen by vdp_interrupt
    m_prev_upd7759_irq,  \* int: last (converted) level seen by upd7759_drq_w
    m_vector,            \* u32: last vector handed to the CPU
    m_upd7759_ctrl,      \* u8: port 0x0b latch
    m_port_1c,           \* u8: port 0x1c latch
    m_port_1d,           \* u8: port 0x1d latch
    m_port_1e,           \* u8: port 0x1e latch
    m_touchpad_x,        \* u8: sampled X
    m_touchpad_y,        \* u8: sampled Y
    m_i8255_portb,       \* u8: port B shadow
    m_port_tp,           \* TP.0 .. TP.19 input ports: row -> 24-bit mask
    m_port5,             \* PORT5 input port (grey button, active low)
    m_port4,             \* PORT4 input port (joystick and buttons, active low)
    upd7759_busy,        \* what m_upd7759->busy_r() returns
    dev_calls,           \* calls into other devices made by the handler that ran last
    cpu_script,          \* the CPU program's position in a port 0x17 write sequence
    cpu_irq_line,        \* level last passed to m_maincpu->set_input_line(0, .)
    fatal,               \* "none", or which fatalerror() ended emulation
    op,                  \* name of the handler that ran last
    ret                  \* value returned by the last handler (0 when it returns none)

irqVars   == <<m_irq_active, m_irq_enabled, m_prev_v9938_irq, m_prev_upd7759_irq,
               m_vector, cpu_irq_line, fatal>>
inputs    == <<m_port_tp, m_port5>>
touchVars == <<m_port_1c, m_port_1d, m_port_1e, m_touchpad_x, m_touchpad_y,
               m_i8255_portb, inputs>>
vars      == <<m_irq_active, m_irq_enabled, m_prev_v9938_irq, m_prev_upd7759_irq,
               m_vector, m_upd7759_ctrl, m_port_1c, m_port_1d, m_port_1e,
               m_touchpad_x, m_touchpad_y, m_i8255_portb, m_port_tp, m_port5,
               cpu_irq_line, fatal, op, ret, cpu_script, m_port4, upd7759_busy,
               dev_calls>>

\* what the handlers of the interrupt controller and the touchpad never touch
env       == <<cpu_script, m_port4, upd7759_busy>>
outside   == <<env, dev_calls>>

---------------------------------------------------------------------------
(* Program constants *)

CLEAR_LINE     == 0
ASSERT_LINE    == 1
VECTOR_V9938   == 248
VECTOR_UPD7759 == 251
IRQ_V9938      == 1
IRQ_UPD7759    == 8
TOUCHPAD_ROWS  == 20
TOUCHPAD_COLS  == 24
U8_MAX         == 255

(* Bounds of the model *)

MaxLineState  == 2    \* raw `state` arguments of the line callbacks: 0..MaxLineState
MaxEnableData == 15   \* bytes written to port 0x16: 0..MaxEnableData
MaxSelectData == 7    \* bytes written to port 0x17: 0..MaxSelectData
MaxLatchData  == 1    \* bytes written to ports 0x1c, 0x1d, 0x1e: 0..MaxLatchData

Byte       == 0..U8_MAX
LineStates == 0..MaxLineState
EnableData == 0..MaxEnableData
SelectData == 0..MaxSelectData
LatchData  == 0..MaxLatchData

---------------------------------------------------------------------------
(* C integer operators on u8 operands *)

RECURSIVE BitAnd(_, _)
BitAnd(a, b) ==
    IF a = 0 \/ b = 0 THEN 0
    ELSE (a % 2) * (b % 2) + 2 * BitAnd(a \div 2, b \div 2)

RECURSIVE BitOr(_, _)
BitOr(a, b) ==
    IF a = 0 THEN b
    ELSE IF b = 0 THEN a
    ELSE (IF (a % 2) + (b % 2) > 0 THEN 1 ELSE 0) + 2 * BitOr(a \div 2, b \div 2)

\* u8 &= ~mask
BitClear(a, mask) == BitAnd(a, U8_MAX - mask)

Shl1(n) == 2 ^ n

---------------------------------------------------------------------------
(* machine_start *)

Init ==
    /\ m_i8255_portb = 127
    /\ m_upd7759_ctrl = 0
    /\ m_port_1c = 0
    /\ m_port_1d = 0
    /\ m_port_1e = 0
    /\ m_prev_v9938_irq = CLEAR_LINE
    /\ m_prev_upd7759_irq = CLEAR_LINE
    /\ m_touchpad_x = 0
    /\ m_touchpad_y = 0
    /\ m_vector = 0
    /\ m_irq_enabled = 0
    /\ m_irq_active = 0
    /\ m_port_tp = [row \in 0..(TOUCHPAD_ROWS - 1) |-> 0]
    /\ m_port5 = U8_MAX
    /\ m_port4 = U8_MAX
    /\ upd7759_busy = 1
    /\ dev_calls = <<>>
    /\ cpu_script = [start |-> 0, mask |-> 0, done |-> {}]
    /\ cpu_irq_line = CLEAR_LINE
    /\ fatal = "none"
    /\ op = "machine_start"
    /\ ret = 0

---------------------------------------------------------------------------
(* Interrupt latch and arbiter *)

\* update_irq_state: the level driven onto CPU input line 0
update_irq_state(active, enabled) ==
    IF BitAnd(active, enabled) # 0 THEN ASSERT_LINE ELSE CLEAR_LINE

\* Mutant of vdp_interrupt: level triggered, the stored previous level is not
\* consulted.
vdp_interrupt_level(state) ==
    /\ fatal = "none"
    /\ m_irq_active' =
          IF state # CLEAR_LINE
          THEN BitOr(m_irq_active, IRQ_V9938)
          ELSE m_irq_active
    /\ m_prev_v9938_irq' = state
    /\ cpu_irq_line' = update_irq_state(m_irq_active', m_irq_enabled)
    /\ op' = "vdp_interrupt"
    /\ ret' = 0
    /\ UNCHANGED <<m_irq_enabled, m_prev_upd7759_irq, m_vector, fatal,
                   m_upd7759_ctrl, touchVars>>

vdp_interrupt(state) ==
    /\ fatal = "none"
    /\ m_irq_active' =
          IF state # CLEAR_LINE /\ m_prev_v9938_irq = CLEAR_LINE
          THEN BitOr(m_irq_active, IRQ_V9938)
          ELSE m_irq_active
    /\ m_prev_v9938_irq' = state
    /\ cpu_irq_line' = update_irq_state(m_irq_active', m_irq_enabled)
    /\ op' = "vdp_interrupt"
    /\ ret' = 0
    /\ UNCHANGED <<m_irq_enabled, m_prev_upd7759_irq, m_vector, fatal,
                   m_upd7759_ctrl, touchVars>>

\* Mutant of upd7759_drq_w: the speech source latches into bit 2 of the mask.
upd7759_drq_w_bit2(state) ==
    LET upd7759_irq == IF state # 0 THEN CLEAR_LINE ELSE ASSERT_LINE IN
    /\ fatal = "none"
    /\ m_irq_active' =
          IF upd7759_irq # CLEAR_LINE /\ m_prev_upd7759_irq = CLEAR_LINE
          THEN BitOr(m_irq_active, 4)
          ELSE m_irq_active
    /\ m_prev_upd7759_irq' = upd7759_irq
    /\ cpu_irq_line' = update_irq_state(m_irq_active', m_irq_enabled)
    /\ op' = "upd7759_drq_w"
    /\ ret' = 0
    /\ UNCHANGED <<m_irq_enabled, m_prev_v9938_irq, m_vector, fatal,
                   m_upd7759_ctrl, touchVars>>

\* Mutant of upd7759_drq_w: the raw level is taken as active high.
upd7759_drq_w_active_high(state) ==
    LET upd7759_irq == IF state # 0 THEN ASSERT_LINE ELSE CLEAR_LINE IN
    /\ fatal = "none"
    /\ m_irq_active' =
          IF upd7759_irq # CLEAR_LINE /\ m_prev_upd7759_irq = CLEAR_LINE
          THEN BitOr(m_irq_active, IRQ_UPD7759)
          ELSE m_irq_active
    /\ m_prev_upd7759_irq' = upd7759_irq
    /\ cpu_irq_line' = update_irq_state(m_irq_active', m_irq_enabled)
    /\ op' = "upd7759_drq_w"
    /\ ret' = 0
    /\ UNCHANGED <<m_irq_enabled, m_prev_v9938_irq, m_vector, fatal,
                   m_upd7759_ctrl, touchVars>>

upd7759_drq_w(state) ==
    LET upd7759_irq == IF state # 0 THEN CLEAR_LINE ELSE ASSERT_LINE IN
    /\ fatal = "none"
    /\ m_irq_active' =
          IF upd7759_irq # CLEAR_LINE /\ m_prev_upd7759_irq = CLEAR_LINE
          THEN BitOr(m_irq_active, IRQ_UPD7759)
          ELSE m_irq_active
    /\ m_prev_upd7759_irq' = upd7759_irq
    /\ cpu_irq_line' = update_irq_state(m_irq_active', m_irq_enabled)
    /\ op' = "upd7759_drq_w"
    /\ ret' = 0
    /\ UNCHANGED <<m_irq_enabled, m_prev_v9938_irq, m_vector, fatal,
                   m_upd7759_ctrl, touchVars>>

\* Mutant of upd7759_busy_w: with bit 0 of the control register clear, a low
\* BUSY level latches the speech interrupt.
upd7759_busy_w_latches(state) ==
    /\ fatal = "none"
    /\ op' = "upd7759_busy_w"
    /\ m_irq_active' =
          IF BitAnd(m_upd7759_ctrl, 1) = 0 /\ state = 0
          THEN BitOr(m_irq_active, IRQ_UPD7759)
          ELSE m_irq_active
    /\ cpu_irq_line' = update_irq_state(m_irq_active', m_irq_enabled)
    /\ ret' = 0
    /\ UNCHANGED <<m_irq_enabled, m_prev_v9938_irq, m_prev_upd7759_irq, m_vector,
                   fatal, m_upd7759_ctrl, touchVars>>

\* the body is commented out in the source: nothing but the test remains
upd7759_busy_w(state) ==
    /\ fatal = "none"
    /\ op' = "upd7759_busy_w"
    /\ ret' = 0
    /\ UNCHANGED <<irqVars, m_upd7759_ctrl, touchVars>>

\* Mutant of irq_callback: an acknowledge clears the whole pending mask.
irq_callback_clears_all ==
    /\ fatal = "none"
    /\ op' = "irq_callback"
    /\ IF BitAnd(BitAnd(m_irq_active, m_irq_enabled), IRQ_V9938) # 0
       THEN /\ m_irq_active' = 0
            /\ m_vector' = VECTOR_V9938
            /\ ret' = VECTOR_V9938
            /\ cpu_irq_line' = update_irq_state(m_irq_active', m_irq_enabled)
            /\ UNCHANGED fatal
       ELSE IF BitAnd(BitAnd(m_irq_active, m_irq_enabled), IRQ_UPD7759) # 0
       THEN /\ m_irq_active' = 0
            /\ m_vector' = VECTOR_UPD7759
            /\ ret' = VECTOR_UPD7759
            /\ cpu_irq_line' = update_irq_state(m_irq_active', m_irq_enabled)
            /\ UNCHANGED fatal
       ELSE /\ fatal' = IF BitAnd(m_irq_active, m_irq_enabled) # 0
                        THEN "unknown_irq" ELSE "no_irq"
            /\ ret' = 0
            /\ UNCHANGED <<m_irq_active, m_vector, cpu_irq_line>>
    /\ UNCHANGED <<m_irq_enabled, m_prev_v9938_irq, m_prev_upd7759_irq,
                   m_upd7759_ctrl, touchVars>>

\* Mutant of irq_callback: the video source is served whenever it is pending,
\* enabled or not, as long as something is pending and enabled.
irq_callback_ignores_enable ==
    /\ fatal = "none"
    /\ op' = "irq_callback"
    /\ IF BitAnd(m_irq_active, m_irq_enabled) # 0 /\ BitAnd(m_irq_active, IRQ_V9938) # 0
       THEN /\ m_irq_active' = BitClear(m_irq_active, IRQ_V9938)
            /\ m_vector' = VECTOR_V9938
            /\ ret' = VECTOR_V9938
            /\ cpu_irq_line' = update_irq_state(m_irq_active', m_irq_enabled)
            /\ UNCHANGED fatal
       ELSE IF BitAnd(BitAnd(m_irq_active, m_irq_enabled), IRQ_UPD7759) # 0
       THEN /\ m_irq_active' = BitClear(m_irq_active, IRQ_UPD7759)
            /\ m_vector' = VECTOR_UPD7759
            /\ ret' = VECTOR_UPD7759
            /\ cpu_irq_line' = update_irq_state(m_irq_active', m_irq_enabled)
            /\ UNCHANGED fatal
       ELSE /\ fatal' = IF BitAnd(m_irq_active, m_irq_enabled) # 0
                        THEN "unknown_irq" ELSE "no_irq"
            /\ ret' = 0
            /\ UNCHANGED <<m_irq_active, m_vector, cpu_irq_line>>
    /\ UNCHANGED <<m_irq_enabled, m_prev_v9938_irq, m_prev_upd7759_irq,
                   m_upd7759_ctrl, touchVars>>

\* Mutant of irq_callback: the speech chip is served before the video chip.
irq_callback_speech_first ==
    /\ fatal = "none"
    /\ op' = "irq_callback"
    /\ IF BitAnd(BitAnd(m_irq_active, m_irq_enabled), IRQ_UPD7759) # 0
       THEN /\ m_irq_active' = BitClear(m_irq_active, IRQ_UPD7759)
            /\ m_vector' = VECTOR_UPD7759
            /\ ret' = VECTOR_UPD7759
            /\ cpu_irq_line' = update_irq_state(m_irq_active', m_irq_enabled)
            /\ UNCHANGED fatal
       ELSE IF BitAnd(BitAnd(m_irq_active, m_irq_enabled), IRQ_V9938) # 0
       THEN /\ m_irq_active' = BitClear(m_irq_active, IRQ_V9938)
            /\ m_vector' = VECTOR_V9938
            /\ ret' = VECTOR_V9938
            /\ cpu_irq_line' = update_irq_state(m_irq_active', m_irq_enabled)
            /\ UNCHANGED fatal
       ELSE /\ fatal' = IF BitAnd(m_irq_active, m_irq_enabled) # 0
                        THEN "unknown_irq" ELSE "no_irq"
            /\ ret' = 0
            /\ UNCHANGED <<m_irq_active, m_vector, cpu_irq_line>>
    /\ UNCHANGED <<m_irq_enabled, m_prev_v9938_irq, m_prev_upd7759_irq,
                   m_upd7759_ctrl, touchVars>>

\* Mutant of irq_callback: the trailing update_irq_state() is left out.
irq_callback_stale_line ==
    /\ fatal = "none"
    /\ op' = "irq_callback"
    /\ IF BitAnd(BitAnd(m_irq_active, m_irq_enabled), IRQ_V9938) # 0
       THEN /\ m_irq_active' = BitClear(m_irq_active, IRQ_V9938)
            /\ m_vector' = VECTOR_V9938
            /\ ret' = VECTOR_V9938
            /\ UNCHANGED <<fatal, cpu_irq_line>>
       ELSE IF BitAnd(BitAnd(m_irq_active, m_irq_enabled), IRQ_UPD7759) # 0
       THEN /\ m_irq_active' = BitClear(m_irq_active, IRQ_UPD7759)
            /\ m_vector' = VECTOR_UPD7759
            /\ ret' = VECTOR_UPD7759
            /\ UNCHANGED <<fatal, cpu_irq_line>>
       ELSE /\ fatal' = IF BitAnd(m_irq_active, m_irq_enabled) # 0
                        THEN "unknown_irq" ELSE "no_irq"
            /\ ret' = 0
            /\ UNCHANGED <<m_irq_active, m_vector, cpu_irq_line>>
    /\ UNCHANGED <<m_irq_enabled, m_prev_v9938_irq, m_prev_upd7759_irq,
                   m_upd7759_ctrl, touchVars>>

\* Mutant of irq_callback: with nothing to acknowledge the default vector 0 is
\* returned instead of calling fatalerror().
irq_callback_default_vector ==
    /\ fatal = "none"
    /\ op' = "irq_callback"
    /\ IF BitAnd(BitAnd(m_irq_active, m_irq_enabled), IRQ_V9938) # 0
       THEN /\ m_irq_active' = BitClear(m_irq_active, IRQ_V9938)
            /\ m_vector' = VECTOR_V9938
            /\ ret' = VECTOR_V9938
       ELSE IF BitAnd(BitAnd(m_irq_active, m_irq_enabled), IRQ_UPD7759) # 0
       THEN /\ m_irq_active' = BitClear(m_irq_active, IRQ_UPD7759)
            /\ m_vector' = VECTOR_UPD7759
            /\ ret' = VECTOR_UPD7759
       ELSE /\ m_vector' = 0
            /\ ret' = 0
            /\ UNCHANGED m_irq_active
    /\ cpu_irq_line' = update_irq_state(m_irq_active', m_irq_enabled)
    /\ UNCHANGED <<m_irq_enabled, m_prev_v9938_irq, m_prev_upd7759_irq, fatal,
                   m_upd7759_ctrl, touchVars>>

irq_callback ==
    /\ fatal = "none"
    /\ op' = "irq_callback"
    /\ IF BitAnd(BitAnd(m_irq_active, m_irq_enabled), IRQ_V9938) # 0
       THEN /\ m_irq_active' = BitClear(m_irq_active, IRQ_V9938)
            /\ m_vector' = VECTOR_V9938
            /\ ret' = VECTOR_V9938
            /\ cpu_irq_line' = update_irq_state(m_irq_active', m_irq_enabled)
            /\ UNCHANGED fatal
       ELSE IF BitAnd(BitAnd(m_irq_active, m_irq_enabled), IRQ_UPD7759) # 0
       THEN /\ m_irq_active' = BitClear(m_irq_active, IRQ_UPD7759)
            /\ m_vector' = VECTOR_UPD7759
            /\ ret' = VECTOR_UPD7759
            /\ cpu_irq_line' = update_irq_state(m_irq_active', m_irq_enabled)
            /\ UNCHANGED fatal
       ELSE /\ fatal' = IF BitAnd(m_irq_active, m_irq_enabled) # 0
                        THEN "unknown_irq" ELSE "no_irq"
            /\ ret' = 0
            /\ UNCHANGED <<m_irq_active, m_vector, cpu_irq_line>>
    /\ UNCHANGED <<m_irq_enabled, m_prev_v9938_irq, m_prev_upd7759_irq,
                   m_upd7759_ctrl, touchVars>>

\* Mutant of irq_enable_r: the pending mask is read in place of the enable mask.
irq_enable_r_reads_pending ==
    /\ fatal = "none"
    /\ op' = "irq_enable_r"
    /\ ret' = m_irq_active
    /\ UNCHANGED <<irqVars, m_upd7759_ctrl, touchVars>>

\* port 0x16 read
irq_enable_r ==
    /\ fatal = "none"
    /\ op' = "irq_enable_r"
    /\ ret' = m_irq_enabled
    /\ UNCHANGED <<irqVars, m_upd7759_ctrl, touchVars>>

\* Mutant of irq_enable_w: pending bits of disabled sources are dropped.
irq_enable_w_masking(data) ==
    /\ fatal = "none"
    /\ op' = "irq_enable_w"
    /\ m_irq_enabled' = data
    /\ m_irq_active' = BitAnd(m_irq_active, data)
    /\ ret' = 0
    /\ UNCHANGED <<m_prev_v9938_irq, m_prev_upd7759_irq, m_vector,
                   cpu_irq_line, fatal, m_upd7759_ctrl, touchVars>>

\* port 0x16 write: stores the mask; update_irq_state() is not called
irq_enable_w(data) ==
    /\ fatal = "none"
    /\ op' = "irq_enable_w"
    /\ m_irq_enabled' = data
    /\ ret' = 0
    /\ UNCHANGED <<m_irq_active, m_prev_v9938_irq, m_prev_upd7759_irq, m_vector,
                   cpu_irq_line, fatal, m_upd7759_ctrl, touchVars>>

\* Mutant of irq_select_w: clearing an enable bit also drops the CPU line.
irq_select_w_drops_line(data) ==
    LET pin == BitAnd(data \div 2, 7) IN
    /\ fatal = "none"
    /\ op' = "irq_select_w"
    /\ m_irq_enabled' =
          IF BitAnd(data, 1) # 0
          THEN BitOr(m_irq_enabled, Shl1(pin))
          ELSE BitClear(m_irq_enabled, Shl1(pin))
    /\ cpu_irq_line' = IF BitAnd(data, 1) # 0 THEN cpu_irq_line ELSE CLEAR_LINE
    /\ ret' = 0
    /\ UNCHANGED <<m_irq_active, m_prev_v9938_irq, m_prev_upd7759_irq, m_vector,
                   fatal, m_upd7759_ctrl, touchVars>>

\* Mutant of irq_select_w: the pin index is masked to two bits.
irq_select_w_two_bit_pin(data) ==
    LET pin == BitAnd(data \div 2, 3) IN
    /\ fatal = "none"
    /\ op' = "irq_select_w"
    /\ m_irq_enabled' =
          IF BitAnd(data, 1) # 0
          THEN BitOr(m_irq_enabled, Shl1(pin))
          ELSE BitClear(m_irq_enabled, Shl1(pin))
    /\ ret' = 0
    /\ UNCHANGED <<m_irq_active, m_prev_v9938_irq, m_prev_upd7759_irq, m_vector,
                   cpu_irq_line, fatal, m_upd7759_ctrl, touchVars>>

\* port 0x17 write: sets or clears one bit; update_irq_state() is not called
irq_select_w(data) ==
    LET pin == BitAnd(data \div 2, 7) IN
    /\ fatal = "none"
    /\ op' = "irq_select_w"
    /\ m_irq_enabled' =
          IF BitAnd(data, 1) # 0
          THEN BitOr(m_irq_enabled, Shl1(pin))
          ELSE BitClear(m_irq_enabled, Shl1(pin))
    /\ ret' = 0
    /\ UNCHANGED <<m_irq_active, m_prev_v9938_irq, m_prev_upd7759_irq, m_vector,
                   cpu_irq_line, fatal, m_upd7759_ctrl, touchVars>>

---------------------------------------------------------------------------
(* Touchpad control latches and coordinate register *)

port1c_w(data) ==
    /\ fatal = "none"
    /\ op' = "port1c_w"
    /\ m_port_1c' = data
    /\ ret' = 0
    /\ UNCHANGED <<irqVars, m_upd7759_ctrl, m_port_1d, m_port_1e, m_touchpad_x,
                   m_touchpad_y, m_i8255_portb, inputs>>

port1d_w(data) ==
    /\ fatal = "none"
    /\ op' = "port1d_w"
    /\ m_port_1d' = data
    /\ ret' = 0
    /\ UNCHANGED <<irqVars, m_upd7759_ctrl, m_port_1c, m_port_1e, m_touchpad_x,
                   m_touchpad_y, m_i8255_portb, inputs>>

port1e_w(data) ==
    /\ fatal = "none"
    /\ op' = "port1e_w"
    /\ m_port_1e' = data
    /\ ret' = 0
    /\ UNCHANGED <<irqVars, m_upd7759_ctrl, m_port_1c, m_port_1d, m_touchpad_x,
                   m_touchpad_y, m_i8255_portb, inputs>>

\* Mutant of port1e_r: the byte written to port 0x1e is read back.
port1e_r_reads_latch ==
    /\ fatal = "none"
    /\ op' = "port1e_r"
    /\ ret' = m_port_1e
    /\ UNCHANGED <<irqVars, m_upd7759_ctrl, touchVars>>

\* Mutant of port1e_r: the read clears the sampled coordinates.
port1e_r_clears ==
    /\ fatal = "none"
    /\ op' = "port1e_r"
    /\ ret' = IF BitAnd(m_port_1c, 1) # 0 THEN m_touchpad_y ELSE m_touchpad_x
    /\ m_touchpad_x' = 0
    /\ m_touchpad_y' = 0
    /\ UNCHANGED <<irqVars, m_upd7759_ctrl, m_port_1c, m_port_1d, m_port_1e,
                   m_i8255_portb, inputs>>

port1e_r ==
    /\ fatal = "none"
    /\ op' = "port1e_r"
    /\ ret' = IF BitAnd(m_port_1c, 1) # 0 THEN m_touchpad_y ELSE m_touchpad_x
    /\ UNCHANGED <<irqVars, m_upd7759_ctrl, touchVars>>

---------------------------------------------------------------------------
(* Touchpad matrix scanner and 8255 port B *)

tp_x == <<  5,  15,  26,  37,  47,  58,  69,  79,  90, 101, 111, 122,
          133, 143, 154, 165, 175, 186, 197, 207, 218, 229, 239, 250>>

tp_y == <<  6,  18,  31,  44,  57,  70,  82,  95, 108, 121,
          134, 146, 159, 172, 185, 198, 210, 223, 236, 249>>

\* int bit = -1; while (port) { bit++; port >>= 1; }
RECURSIVE touchpad_bit_loop(_, _)
touchpad_bit_loop(port, bit) ==
    IF port # 0 THEN touchpad_bit_loop(port \div 2, bit + 1) ELSE bit

\* Mutant of touchpad_bit: the index of the lowest set bit.
RECURSIVE touchpad_lowest_bit(_)
touchpad_lowest_bit(port) ==
    IF port = 0 THEN -1
    ELSE IF port % 2 = 1 THEN 0
    ELSE 1 + touchpad_lowest_bit(port \div 2)

touchpad_bit(port) == touchpad_bit_loop(port, -1)

\* Mutant of touchpad_scan: a scan that finds nothing zeroes the coordinates.
RECURSIVE touchpad_scan_clears(_)
touchpad_scan_clears(row) ==
    IF row < TOUCHPAD_ROWS
    THEN LET port == m_port_tp[row]
             bit  == touchpad_bit(port)
         IN  IF port # 0 /\ bit >= 0 /\ bit < Len(tp_x)
             THEN [pressed |-> TRUE, x |-> tp_x[bit + 1], y |-> tp_y[row + 1]]
             ELSE touchpad_scan_clears(row + 1)
    ELSE [pressed |-> FALSE, x |-> 0, y |-> 0]

\* the for loop of get_touchpad_pressed, entered at `row`
RECURSIVE touchpad_scan(_)
touchpad_scan(row) ==
    IF row < TOUCHPAD_ROWS
    THEN LET port == m_port_tp[row]
             bit  == touchpad_bit(port)
         IN  IF port # 0 /\ bit >= 0 /\ bit < Len(tp_x)
             THEN [pressed |-> TRUE, x |-> tp_x[bit + 1], y |-> tp_y[row + 1]]
             ELSE touchpad_scan(row + 1)
    ELSE [pressed |-> FALSE, x |-> m_touchpad_x, y |-> m_touchpad_y]

\* result and the values left in m_touchpad_x / m_touchpad_y
get_touchpad_pressed == touchpad_scan(0)

\* Mutant of i8255_portb_r: the shadow byte is returned without the & 0xdf.
i8255_portb_r_no_mask ==
    LET scanning == BitAnd(m_port_1d, 1) # 0
        scan     == get_touchpad_pressed
        b0       == BitOr(BitAnd(m_i8255_portb, 248), BitAnd(m_port5, 1))
        b1       == IF scanning
                    THEN BitOr(IF ~scan.pressed THEN BitOr(b0, 2) ELSE b0, 4)
                    ELSE BitOr(b0, 2)
    IN
    /\ fatal = "none"
    /\ op' = "i8255_portb_r"
    /\ m_i8255_portb' = b1
    /\ m_touchpad_x' = IF scanning THEN scan.x ELSE m_touchpad_x
    /\ m_touchpad_y' = IF scanning THEN scan.y ELSE m_touchpad_y
    /\ ret' = b1
    /\ UNCHANGED <<irqVars, m_upd7759_ctrl, m_port_1c, m_port_1d, m_port_1e, inputs>>

\* Mutant of i8255_portb_r: the status bits of the previous read are kept.
i8255_portb_r_keeps_status ==
    LET scanning == BitAnd(m_port_1d, 1) # 0
        scan     == get_touchpad_pressed
        b0       == BitOr(BitAnd(m_i8255_portb, 254), BitAnd(m_port5, 1))
        b1       == IF scanning
                    THEN BitOr(IF ~scan.pressed THEN BitOr(b0, 2) ELSE b0, 4)
                    ELSE BitOr(b0, 2)
    IN
    /\ fatal = "none"
    /\ op' = "i8255_portb_r"
    /\ m_i8255_portb' = b1
    /\ m_touchpad_x' = IF scanning THEN scan.x ELSE m_touchpad_x
    /\ m_touchpad_y' = IF scanning THEN scan.y ELSE m_touchpad_y
    /\ ret' = BitAnd(b1, 223)
    /\ UNCHANGED <<irqVars, m_upd7759_ctrl, m_port_1c, m_port_1d, m_port_1e, inputs>>

i8255_portb_r ==
    LET scanning == BitAnd(m_port_1d, 1) # 0
        scan     == get_touchpad_pressed
        b0       == BitOr(BitAnd(m_i8255_portb, 248), BitAnd(m_port5, 1))
        b1       == IF scanning
                    THEN BitOr(IF ~scan.pressed THEN BitOr(b0, 2) ELSE b0, 4)
                    ELSE BitOr(b0, 2)
    IN
    /\ fatal = "none"
    /\ op' = "i8255_portb_r"
    /\ m_i8255_portb' = b1
    /\ m_touchpad_x' = IF scanning THEN scan.x ELSE m_touchpad_x
    /\ m_touchpad_y' = IF scanning THEN scan.y ELSE m_touchpad_y
    /\ ret' = BitAnd(b1, 223)
    /\ UNCHANGED <<irqVars, m_upd7759_ctrl, m_port_1c, m_port_1d, m_port_1e, inputs>>

---------------------------------------------------------------------------
(* Input ports: what the user does to the touchpad and the grey button *)

MaxTouches == 2      \* cells held down at the same time

\* the cells the user touches: the first two and the last row and column
TouchRows == {0, 1, TOUCHPAD_ROWS - 1}
TouchCols == {0, 1, TOUCHPAD_COLS - 1}

Bit(x, i) == (x \div (2 ^ i)) % 2

Touched == {cell \in TouchRows \X TouchCols : Bit(m_port_tp[cell[1]], cell[2]) = 1}

tp_press(row, col) ==
    /\ fatal = "none"
    /\ Bit(m_port_tp[row], col) = 0
    /\ Cardinality(Touched) < MaxTouches
    /\ m_port_tp' = [m_port_tp EXCEPT ![row] = @ + 2 ^ col]
    /\ op' = "input"
    /\ ret' = 0
    /\ UNCHANGED <<irqVars, m_upd7759_ctrl, m_port_1c, m_port_1d, m_port_1e,
                   m_touchpad_x, m_touchpad_y, m_i8255_portb, m_port5>>

tp_release(row, col) ==
    /\ fatal = "none"
    /\ Bit(m_port_tp[row], col) = 1
    /\ m_port_tp' = [m_port_tp EXCEPT ![row] = @ - 2 ^ col]
    /\ op' = "input"
    /\ ret' = 0
    /\ UNCHANGED <<irqVars, m_upd7759_ctrl, m_port_1c, m_port_1d, m_port_1e,
                   m_touchpad_x, m_touchpad_y, m_i8255_portb, m_port5>>

\* the grey button is bit 0 of PORT5, active low; bits 1-7 are unused and read 1
port5_input(pressed) ==
    /\ fatal = "none"
    /\ m_port5' = IF pressed THEN U8_MAX - 1 ELSE U8_MAX
    /\ op' = "input"
    /\ ret' = 0
    /\ UNCHANGED <<irqVars, m_upd7759_ctrl, m_port_1c, m_port_1d, m_port_1e,
                   m_touchpad_x, m_touchpad_y, m_i8255_portb, m_port_tp>>

---------------------------------------------------------------------------
(* Speech control port 0x0b and the 8255 port A and port C callbacks *)

MaxCtrlData == 4     \* bytes written to port 0x0b and 8255 port C: 0..MaxCtrlData, 0xff
MaxJoyPin   == 1     \* joystick pins of PORT4 the user works: 0..MaxJoyPin
MaxBusy     == 1     \* values m_upd7759->busy_r() returns: 0..MaxBusy

CtrlData   == (0..MaxCtrlData) \cup {U8_MAX}
JoyPins    == 0..MaxJoyPin
BusyValues == 0..MaxBusy

\* one call into another device: m_<dev>-><fn>(offset, data)
DevCall(dev, fn, offset, data) ==
    [dev |-> dev, fn |-> fn, offset |-> offset, data |-> data]

\* Mutant of upd7759_ctrl_w: the bank is taken from bits 1 and 2 of the byte.
upd7759_ctrl_w_wide_bank(data) ==
    /\ fatal = "none"
    /\ op' = "upd7759_ctrl_w"
    /\ m_upd7759_ctrl' = data
    /\ dev_calls' =
          << DevCall("upd7759", "md_w", 0, IF BitAnd(data, 1) # 0 THEN 0 ELSE 1),
             DevCall("upd7759", "set_rom_bank", 0, BitAnd(data, 6) \div 2) >>
    /\ ret' = 0
    /\ UNCHANGED <<irqVars, touchVars, env>>

\* port 0x0b write
upd7759_ctrl_w(data) ==
    /\ fatal = "none"
    /\ op' = "upd7759_ctrl_w"
    /\ m_upd7759_ctrl' = data
    /\ dev_calls' =
          << DevCall("upd7759", "md_w", 0, IF BitAnd(data, 1) # 0 THEN 0 ELSE 1),
             DevCall("upd7759", "set_rom_bank", 0, BitAnd(data, 2) \div 2) >>
    /\ ret' = 0
    /\ UNCHANGED <<irqVars, touchVars, env>>

\* Mutant of i8255_porta_r: bit 6 of PORT4 is passed through as well.
i8255_porta_r_leaks_bit6 ==
    /\ fatal = "none"
    /\ op' = "i8255_porta_r"
    /\ ret' = BitOr(IF upd7759_busy # 0 THEN 64 ELSE 0, m_port4)
    /\ dev_calls' = <<>>
    /\ UNCHANGED <<irqVars, m_upd7759_ctrl, touchVars, env>>

i8255_porta_r ==
    /\ fatal = "none"
    /\ op' = "i8255_porta_r"
    /\ ret' = BitOr(IF upd7759_busy # 0 THEN 64 ELSE 0, BitClear(m_port4, 64))
    /\ dev_calls' = <<>>
    /\ UNCHANGED <<irqVars, m_upd7759_ctrl, touchVars, env>>

\* Mutant of i8255_portc_r: the byte last written to port 0x0b is mixed in.
i8255_portc_r_reads_ctrl ==
    /\ fatal = "none"
    /\ op' = "i8255_portc_r"
    /\ ret' = BitOr(240, BitAnd(m_upd7759_ctrl, 15))
    /\ dev_calls' = <<>>
    /\ UNCHANGED <<irqVars, m_upd7759_ctrl, touchVars, env>>

i8255_portc_r ==
    /\ fatal = "none"
    /\ op' = "i8255_portc_r"
    /\ ret' = 240
    /\ dev_calls' = <<>>
    /\ UNCHANGED <<irqVars, m_upd7759_ctrl, touchVars, env>>

\* only LOG()s the byte
i8255_portc_w(data) ==
    /\ fatal = "none"
    /\ op' = "i8255_portc_w"
    /\ ret' = 0
    /\ dev_calls' = <<>>
    /\ UNCHANGED <<irqVars, m_upd7759_ctrl, touchVars, env>>

\* a joystick direction or button of PORT4 goes down (0) or up (1); bits 6 and
\* 7 are unused and read 1
port4_input(pin, pressed) ==
    /\ fatal = "none"
    /\ m_port4' = IF pressed THEN BitClear(m_port4, Shl1(pin))
                              ELSE BitOr(m_port4, Shl1(pin))
    /\ m_port4' # m_port4
    /\ op' = "input"
    /\ ret' = 0
    /\ dev_calls' = <<>>
    /\ UNCHANGED <<irqVars, m_upd7759_ctrl, touchVars, cpu_script, upd7759_busy>>

\* the speech chip starts or ends playing: busy_r() gives another value
upd7759_busy_input(busy) ==
    /\ fatal = "none"
    /\ busy # upd7759_busy
    /\ upd7759_busy' = busy
    /\ op' = "input"
    /\ ret' = 0
    /\ dev_calls' = <<>>
    /\ UNCHANGED <<irqVars, m_upd7759_ctrl, touchVars, cpu_script, m_port4>>

---------------------------------------------------------------------------
(* io_map: the I/O ports of the CPU *)

MaxBusPort == 33     \* ports the CPU accesses: 0..MaxBusPort, 0x3f and 0xff

BusPorts  == (0..MaxBusPort) \cup {63, U8_MAX}
BusData   == {0, 1}
SoundData == {127, 128, U8_MAX}     \* further bytes sent to the sound chip

\* a read of a port no read handler is mapped to
UnmappedRead == 255

\* a handler that calls into no other device
NoCalls(handler) == handler /\ dev_calls' = <<>> /\ UNCHANGED env

\* map(lo, hi).mirror(mirror).rw(dev, r, w); "" where no handler is given
MapEntry(lo, hi, mirror, dev, r, w) ==
    [lo |-> lo, hi |-> hi, mirror |-> mirror, dev |-> dev, r |-> r, w |-> w]

\* Mutant of io_map: the sound chip is mapped one port further up.
io_map_sound_moved ==
    << MapEntry( 0,  3, 0, "v9938", "read", "write"),
       MapEntry( 4,  7, 0, "tmp8255", "read", "write"),
       MapEntry( 8,  8, 0, "i8251", "data_r", "data_w"),
       MapEntry( 9,  9, 0, "i8251", "status_r", "control_w"),
       MapEntry(11, 11, 0, "segaai_state", "", "upd7759_ctrl_w"),
       MapEntry(13, 13, 0, "sn76489a", "", "write"),
       MapEntry(20, 20, 1, "upd7759", "", "port_w"),
       MapEntry(22, 22, 0, "segaai_state", "irq_enable_r", "irq_enable_w"),
       MapEntry(23, 23, 0, "segaai_state", "", "irq_select_w"),
       MapEntry(28, 28, 0, "segaai_state", "", "port1c_w"),
       MapEntry(29, 29, 0, "segaai_state", "", "port1d_w"),
       MapEntry(30, 30, 0, "segaai_state", "port1e_r", "port1e_w"),
       MapEntry(32, 63, 0, "exp", "read_io", "write_io") >>

\* Mutant of io_map: the speech data port is mirrored over two address bits.
io_map_wide_mirror ==
    << MapEntry( 0,  3, 0, "v9938", "read", "write"),
       MapEntry( 4,  7, 0, "tmp8255", "read", "write"),
       MapEntry( 8,  8, 0, "i8251", "data_r", "data_w"),
       MapEntry( 9,  9, 0, "i8251", "status_r", "control_w"),
       MapEntry(11, 11, 0, "segaai_state", "", "upd7759_ctrl_w"),
       MapEntry(12, 12, 0, "sn76489a", "", "write"),
       MapEntry(20, 20, 3, "upd7759", "", "port_w"),
       MapEntry(22, 22, 0, "segaai_state", "irq_enable_r", "irq_enable_w"),
       MapEntry(23, 23, 0, "segaai_state", "", "irq_select_w"),
       MapEntry(28, 28, 0, "segaai_state", "", "port1c_w"),
       MapEntry(29, 29, 0, "segaai_state", "", "port1d_w"),
       MapEntry(30, 30, 0, "segaai_state", "port1e_r", "port1e_w"),
       MapEntry(32, 63, 0, "exp", "read_io", "write_io") >>

io_map ==
    << MapEntry( 0,  3, 0, "v9938", "read", "write"),
       MapEntry( 4,  7, 0, "tmp8255", "read", "write"),
       MapEntry( 8,  8, 0, "i8251", "data_r", "data_w"),
       MapEntry( 9,  9, 0, "i8251", "status_r", "control_w"),
       MapEntry(11, 11, 0, "segaai_state", "", "upd7759_ctrl_w"),
       MapEntry(12, 12, 0, "sn76489a", "", "write"),
       MapEntry(20, 20, 1, "upd7759", "", "port_w"),
       MapEntry(22, 22, 0, "segaai_state", "irq_enable_r", "irq_enable_w"),
       MapEntry(23, 23, 0, "segaai_state", "", "irq_select_w"),
       MapEntry(28, 28, 0, "segaai_state", "", "port1c_w"),
       MapEntry(29, 29, 0, "segaai_state", "", "port1d_w"),
       MapEntry(30, 30, 0, "segaai_state", "port1e_r", "port1e_w"),
       MapEntry(32, 63, 0, "exp", "read_io", "write_io") >>

\* the entries of io_map that decode `port` for an access of kind "r" or "w"
MapDecodes(port, kind) ==
    {i \in DOMAIN io_map :
        /\ BitClear(port, io_map[i].mirror) \in io_map[i].lo .. io_map[i].hi
        /\ (IF kind = "r" THEN io_map[i].r ELSE io_map[i].w) # ""}

\* the I/O space built from io_map: the entries behind every port
io_space == [kind \in {"r", "w"} |-> [port \in Byte |-> MapDecodes(port, kind)]]

MapHits(port, kind) == io_space[kind][port]

\* the offset handed to the handler: the port address relative to the window
MapOffset(i, port) == BitClear(port, io_map[i].mirror) - io_map[i].lo

\* an access that reaches no handler, or a handler of another device
BusIdle(name, value, calls) ==
    /\ fatal = "none"
    /\ op' = name
    /\ ret' = value
    /\ dev_calls' = calls
    /\ UNCHANGED <<irqVars, m_upd7759_ctrl, touchVars, env>>

\* out port, data
io_write(port, data) ==
    LET hits == MapHits(port, "w") IN
    IF hits = {}
    THEN BusIdle("unmapped_w", 0, <<>>)
    ELSE LET i == CHOOSE i \in hits : \A j \in hits : j <= i
             e == io_map[i]
         IN  IF e.dev # "segaai_state"
             THEN BusIdle("device_w", 0, <<DevCall(e.dev, e.w, MapOffset(i, port), data)>>)
             ELSE CASE e.w = "upd7759_ctrl_w" -> upd7759_ctrl_w(data)
                    [] e.w = "irq_enable_w"   -> NoCalls(irq_enable_w(data))
                    [] e.w = "irq_select_w"   -> NoCalls(irq_select_w(data))
                    [] e.w = "port1c_w"       -> NoCalls(port1c_w(data))
                    [] e.w = "port1d_w"       -> NoCalls(port1d_w(data))
                    [] e.w = "port1e_w"       -> NoCalls(port1e_w(data))

\* in port; `reply` is what a device's read handler answers
io_read(port, reply) ==
    LET hits == MapHits(port, "r") IN
    IF hits = {}
    THEN BusIdle("unmapped_r", UnmappedRead, <<>>)
    ELSE LET i == CHOOSE i \in hits : \A j \in hits : j <= i
             e == io_map[i]
         IN  IF e.dev # "segaai_state"
             THEN BusIdle("device_r", reply, <<DevCall(e.dev, e.r, MapOffset(i, port), 0)>>)
             ELSE CASE e.r = "irq_enable_r" -> NoCalls(irq_enable_r)
                    [] e.r = "port1e_r"     -> NoCalls(port1e_r)

---------------------------------------------------------------------------
(* The interrupt controller driven by its line callbacks, the CPU's        *)
(* acknowledge cycle and accesses to ports 0x16, 0x17, 0x1c and 0x1e.      *)

Next ==
    \/ \E state \in LineStates : vdp_interrupt(state) /\ UNCHANGED outside
    \/ \E state \in LineStates : upd7759_drq_w(state) /\ UNCHANGED outside
    \/ \E state \in LineStates : upd7759_busy_w(state) /\ UNCHANGED outside
    \/ irq_callback /\ UNCHANGED outside
    \/ irq_enable_r /\ UNCHANGED outside
    \/ \E data \in EnableData : irq_enable_w(data) /\ UNCHANGED outside
    \/ \E data \in SelectData : irq_select_w(data) /\ UNCHANGED outside
    \/ \E data \in LatchData : port1c_w(data) /\ UNCHANGED outside
    \/ port1e_r /\ UNCHANGED outside

Spec == Init /\ [][Next]_vars

---------------------------------------------------------------------------
(* The touchpad: the user touches cells and presses the button, the CPU    *)
(* writes the control latches and reads 8255 port B and port 0x1e.         *)

NextTouch ==
    \/ \E row \in TouchRows, col \in TouchCols :
          tp_press(row, col) /\ UNCHANGED outside
    \/ \E row \in TouchRows, col \in TouchCols :
          tp_release(row, col) /\ UNCHANGED outside
    \/ \E pressed \in BOOLEAN : port5_input(pressed) /\ UNCHANGED outside
    \/ \E data \in LatchData : port1c_w(data) /\ UNCHANGED outside
    \/ \E data \in LatchData : port1d_w(data) /\ UNCHANGED outside
    \/ i8255_portb_r /\ UNCHANGED outside
    \/ port1e_r /\ UNCHANGED outside

SpecTouch == Init /\ [][NextTouch]_vars

---------------------------------------------------------------------------
(* The speech chip and the 8255: the CPU writes port 0x0b and the speech    *)
(* enable bit, the 8255 calls its port A and port C callbacks, the speech   *)
(* chip moves its DRQ and BUSY outputs, the user works the joystick.        *)

NextChip ==
    \/ \E data \in CtrlData : upd7759_ctrl_w(data)
    \/ \E state \in LineStates : NoCalls(upd7759_busy_w(state))
    \/ \E state \in LineStates : NoCalls(upd7759_drq_w(state))
    \/ \E data \in {0, IRQ_UPD7759} : NoCalls(irq_enable_w(data))
    \/ NoCalls(irq_callback)
    \/ i8255_porta_r
    \/ i8255_portc_r
    \/ \E data \in CtrlData : i8255_portc_w(data)
    \/ \E pin \in JoyPins, pressed \in BOOLEAN : port4_input(pin, pressed)
    \/ \E busy \in BusyValues : upd7759_busy_input(busy)

SpecChip == Init /\ [][NextChip]_vars

---------------------------------------------------------------------------
(* The CPU's port accesses through io_map, with the video interrupt line    *)
(* moving and the user touching the far corner of the pad.                  *)

NextBus ==
    \/ \E port \in BusPorts, data \in BusData : io_write(port, data)
    \/ \E data \in SoundData : io_write(12, data)
    \/ \E port \in BusPorts, reply \in BusData : io_read(port, reply)
    \/ \E state \in {CLEAR_LINE, ASSERT_LINE} : NoCalls(vdp_interrupt(state))

SpecBus == Init /\ [][NextBus]_vars

---------------------------------------------------------------------------
(* The touchpad registers next to the interrupt controller: the CPU writes  *)
(* the three latches and the video enable bit, reads port 0x1e and port B   *)
(* and acknowledges, the user touches the two corner cells, the video chip  *)
(* moves its interrupt line.                                                *)

LatchCells == {<<0, 0>>, <<TOUCHPAD_ROWS - 1, TOUCHPAD_COLS - 1>>}

NextLatch ==
    \/ \E data \in LatchData : NoCalls(port1c_w(data))
    \/ \E data \in LatchData : NoCalls(port1d_w(data))
    \/ \E data \in LatchData : NoCalls(port1e_w(data))
    \/ NoCalls(port1e_r)
    \/ NoCalls(i8255_portb_r)
    \/ \E cell \in LatchCells : NoCalls(tp_press(cell[1], cell[2]))
    \/ \E cell \in LatchCells : NoCalls(tp_release(cell[1], cell[2]))
    \/ \E state \in {CLEAR_LINE, ASSERT_LINE} : NoCalls(vdp_interrupt(state))
    \/ \E data \in {0, IRQ_V9938} : NoCalls(irq_enable_w(data))
    \/ NoCalls(irq_callback)

SpecLatch == Init /\ [][NextLatch]_vars

---------------------------------------------------------------------------
(* The CPU program that loads a mask into the enable register one bit at a *)
(* time through port 0x17, after a whole-mask write through port 0x16.     *)

MaxSelStart == 2     \* starting masks: 85 * k mod 256 for k in 0..MaxSelStart
MaxSelHigh  == 1     \* high nibbles sent along in bits 4-7: 0..MaxSelHigh and 15

Pins          == 0..7
SelStartMasks == {(85 * k) % 256 : k \in 0..MaxSelStart}
SelHigh       == (0..MaxSelHigh) \cup {15}

\* whole-mask write of a starting mask; the program picks the mask to load next
SelStart(start, mask) ==
    /\ cpu_script.done \in {{}, Pins}
    /\ irq_enable_w(start)
    /\ cpu_script' = [start |-> start, mask |-> mask, done |-> {}]
    /\ UNCHANGED <<m_port4, upd7759_busy, dev_calls>>

\* out 17h, (pin << 1) | bit_pin(mask), with anything in bits 4-7
SelStep(pin, high) ==
    /\ pin \notin cpu_script.done
    /\ irq_select_w(16 * high + 2 * pin + Bit(cpu_script.mask, pin))
    /\ cpu_script' = [cpu_script EXCEPT !.done = @ \cup {pin}]
    /\ UNCHANGED <<m_port4, upd7759_busy, dev_calls>>

\* the same mask written in one go through port 0x16
SelWhole ==
    /\ cpu_script.done = Pins
    /\ irq_enable_w(cpu_script.mask)
    /\ UNCHANGED outside

NextSel ==
    \/ \E start \in SelStartMasks, mask \in Byte : SelStart(start, mask)
    \/ \E pin \in Pins, high \in SelHigh : SelStep(pin, high)
    \/ SelWhole

SpecSel == Init /\ [][NextSel]_vars

---------------------------------------------------------------------------
(* Properties of the interrupt controller, checked under Spec *)

HasBit(x, mask) == BitAnd(x, mask) # 0

VideoReady  == HasBit(BitAnd(m_irq_active, m_irq_enabled), IRQ_V9938)
SpeechReady == HasBit(BitAnd(m_irq_active, m_irq_enabled), IRQ_UPD7759)

EnableWrite == op' \in {"irq_enable_w", "irq_select_w"}

\* C1: in every reachable state the level last driven onto the CPU interrupt
\* input is ASSERT if and only if (m_irq_active & m_irq_enabled) != 0.
\* The writes to ports 0x16 and 0x17 change the mask without calling
\* update_irq_state(), so TLC finds this violated.
C1_LineFollowsMasks ==
    (cpu_irq_line = ASSERT_LINE) <=> (BitAnd(m_irq_active, m_irq_enabled) # 0)

\* C2: a write to port 0x16 or 0x17 that sets the enable bit of a source whose
\* pending bit is already set leaves the CPU interrupt line asserted when the
\* write completes.  Violated: the line keeps the level it had before the write.
C2_EnableRaisesLine ==
    [][\A src \in {IRQ_V9938, IRQ_UPD7759} :
          ( /\ EnableWrite
            /\ HasBit(m_irq_active, src)
            /\ ~HasBit(m_irq_enabled, src)
            /\ HasBit(m_irq_enabled', src) )
          => cpu_irq_line' = ASSERT_LINE]_vars

\* C3: a line callback sets its source's pending bit exactly when the new level
\* is asserted and the stored previous level is not asserted, it leaves the other
\* source's bit alone, and it always stores the new level as the previous level
\* (the raw state for the video chip, the converted active-low level for the
\* speech chip).  While the stored level of a source is asserted, no step sets
\* that source's pending bit: a new edge needs a not-asserted callback first.
C3_EdgeTriggered ==
    [][ /\ \A state \in LineStates :
              vdp_interrupt(state) =>
                 /\ m_prev_v9938_irq' = state
                 /\ HasBit(m_irq_active', IRQ_V9938) <=>
                       \/ HasBit(m_irq_active, IRQ_V9938)
                       \/ (state # CLEAR_LINE /\ m_prev_v9938_irq = CLEAR_LINE)
                 /\ HasBit(m_irq_active', IRQ_UPD7759) <=> HasBit(m_irq_active, IRQ_UPD7759)
        /\ \A state \in LineStates :
              upd7759_drq_w(state) =>
                 /\ m_prev_upd7759_irq' = (IF state = 0 THEN ASSERT_LINE ELSE CLEAR_LINE)
                 /\ HasBit(m_irq_active', IRQ_UPD7759) <=>
                       \/ HasBit(m_irq_active, IRQ_UPD7759)
                       \/ (state = 0 /\ m_prev_upd7759_irq = CLEAR_LINE)
                 /\ HasBit(m_irq_active', IRQ_V9938) <=> HasBit(m_irq_active, IRQ_V9938)
        /\ (m_prev_v9938_irq # CLEAR_LINE /\ ~HasBit(m_irq_active, IRQ_V9938))
              => ~HasBit(m_irq_active', IRQ_V9938)
        /\ (m_prev_upd7759_irq # CLEAR_LINE /\ ~HasBit(m_irq_active, IRQ_UPD7759))
              => ~HasBit(m_irq_active', IRQ_UPD7759)
      ]_vars

\* C3 witness: the video bit has been acknowledged while the video line is
\* still held asserted, so the held level has not set the bit again.
C3_Witness ==
    /\ op = "vdp_interrupt"
    /\ m_prev_v9938_irq # CLEAR_LINE
    /\ m_vector = VECTOR_V9938
    /\ ~HasBit(m_irq_active, IRQ_V9938)

\* C4: a pending bit is sticky: a set bit of m_irq_active stays set across every
\* step (line callbacks, writes to ports 0x16 / 0x17, touchpad port accesses,
\* acknowledges of the other source) except an irq_callback that returns the
\* vector of that same source.
C4_PendingSticky ==
    [][ /\ (HasBit(m_irq_active, IRQ_V9938)
              /\ ~(op' = "irq_callback" /\ ret' = VECTOR_V9938))
           => HasBit(m_irq_active', IRQ_V9938)
        /\ (HasBit(m_irq_active, IRQ_UPD7759)
              /\ ~(op' = "irq_callback" /\ ret' = VECTOR_UPD7759))
           => HasBit(m_irq_active', IRQ_UPD7759)
      ]_vars

\* C4 witness: the video bit is still pending after its line went low, its
\* enable bit was cleared through port 0x16 and the speech chip was acknowledged.
C4_Witness ==
    /\ HasBit(m_irq_active, IRQ_V9938)
    /\ m_prev_v9938_irq = CLEAR_LINE
    /\ op = "irq_enable_w"
    /\ ~HasBit(m_irq_enabled, IRQ_V9938)
    /\ m_vector = VECTOR_UPD7759
    /\ m_port_1c # 0

\* C5: when both the video bit and the speech bit are pending and enabled,
\* irq_callback returns the video vector and clears only the video pending bit;
\* an irq_callback returns the speech vector only when the video bit was not
\* pending and enabled at the call.
C5_Priority ==
    [][ op' = "irq_callback" =>
          /\ (VideoReady /\ SpeechReady) =>
                /\ fatal' = "none"
                /\ ret' = VECTOR_V9938
                /\ m_irq_active' = m_irq_active - IRQ_V9938
          /\ (fatal' = "none" /\ ret' = VECTOR_UPD7759) => ~VideoReady
      ]_vars

\* C5 witness: the video chip was acknowledged first; the speech bit is still
\* pending and enabled.
C5_Witness ==
    /\ op = "irq_callback"
    /\ ret = VECTOR_V9938
    /\ HasBit(m_irq_enabled, IRQ_V9938)
    /\ SpeechReady

\* C6: with the enabled mask equal to 0x01 and nothing pending, one low-to-high
\* transition of the video line asserts the CPU interrupt line; the following
\* irq_callback returns 0xF8 and leaves the line deasserted and the pending
\* mask 0x00.
C6_Scenario ==
    [][ /\ ( /\ m_irq_enabled = IRQ_V9938
             /\ m_irq_active = 0
             /\ m_prev_v9938_irq = CLEAR_LINE
             /\ op' = "vdp_interrupt"
             /\ m_prev_v9938_irq' # CLEAR_LINE )
           => (cpu_irq_line' = ASSERT_LINE /\ m_irq_active' = IRQ_V9938)
        /\ ( /\ m_irq_enabled = IRQ_V9938
             /\ m_irq_active = IRQ_V9938
             /\ op' = "irq_callback" )
           => /\ fatal' = "none"
              /\ ret' = 248
              /\ cpu_irq_line' = CLEAR_LINE
              /\ m_irq_active' = 0
      ]_vars

\* C6 witness: the end of the scenario as run from machine_start (the speech
\* chip never signalled, no other port was written).
C6_Witness ==
    /\ op = "irq_callback"
    /\ ret = 248
    /\ m_irq_enabled = IRQ_V9938
    /\ m_irq_active = 0
    /\ cpu_irq_line = CLEAR_LINE
    /\ m_prev_v9938_irq = ASSERT_LINE
    /\ m_prev_upd7759_irq = CLEAR_LINE
    /\ m_port_1c = 0

\* C7: irq_callback called when neither the video bit nor the speech bit is
\* both pending and enabled ends in the fatal state, clears no pending bit and
\* does not update the stored vector.
C7_FatalWhenNothingToAck ==
    [][ (op' = "irq_callback" /\ ~VideoReady /\ ~SpeechReady) =>
          /\ fatal' # "none"
          /\ fatal' = (IF BitAnd(m_irq_active, m_irq_enabled) = 0
                       THEN "no_irq" ELSE "unknown_irq")
          /\ m_irq_active' = m_irq_active
          /\ m_vector' = m_vector
      ]_vars

\* C7 witness: an acknowledge with a pending but disabled source has aborted.
C7_Witness ==
    /\ op = "irq_callback"
    /\ fatal = "no_irq"
    /\ m_irq_active # 0

\* C9: a write through port 0x16 or 0x17 that changes the enabled mask only in
\* bits that are not set in the pending mask leaves the CPU interrupt line
\* level unchanged.
C9_DisjointToggleKeepsLine ==
    [][ ( /\ EnableWrite
          /\ BitAnd(m_irq_enabled', m_irq_active) = BitAnd(m_irq_enabled, m_irq_active) )
        => cpu_irq_line' = cpu_irq_line ]_vars

\* C9 witness: bit 1 was switched on through port 0x17 while the video bit is
\* pending and enabled and the line is asserted.
C9_Witness ==
    /\ op = "irq_select_w"
    /\ m_irq_active = IRQ_V9938
    /\ m_irq_enabled = 3
    /\ cpu_irq_line = ASSERT_LINE

---------------------------------------------------------------------------
(* Property of the two enable ports, checked under SpecSel *)

\* C8: ports 0x16 and 0x17 write one shared mask.  Each irq_select_w(value)
\* changes exactly bit ((value >> 1) & 7) of m_irq_enabled to (value & 1),
\* whatever bits 4-7 of value hold, and leaves the other seven bits alone: after
\* the writes for the pins in cpu_script.done, made in any order on top of any
\* starting mask, those bits equal the bits of the mask being loaded and all
\* other bits still equal the starting mask.  Once all eight pins are written
\* m_irq_enabled equals the mask, and the single irq_enable_w of the same mask
\* (SelWhole) leaves it so.
C8_SelectLoadsMask ==
    /\ m_irq_enabled \in Byte
    /\ \A pin \in Pins :
          Bit(m_irq_enabled, pin) =
             IF pin \in cpu_script.done
             THEN Bit(cpu_script.mask, pin)
             ELSE Bit(cpu_script.start, pin)
    /\ cpu_script.done = Pins => m_irq_enabled = cpu_script.mask

\* C8 witness: mask 0xA6 has been loaded bit by bit over the starting mask 0x55,
\* the last write carrying a non-zero high nibble.
C8_Witness ==
    /\ op = "irq_select_w"
    /\ cpu_script.done = Pins
    /\ cpu_script.start = 85
    /\ cpu_script.mask = 166
    /\ m_irq_enabled = 166

---------------------------------------------------------------------------
(* Properties of the touchpad scanner, checked under SpecTouch *)

AnyTouched == \E row \in 0..(TOUCHPAD_ROWS - 1) : m_port_tp[row] # 0

FirstTouchedRow ==
    CHOOSE row \in 0..(TOUCHPAD_ROWS - 1) :
        /\ m_port_tp[row] # 0
        /\ \A above \in 0..(row - 1) : m_port_tp[above] = 0

LowestCol(port) ==
    CHOOSE col \in 0..(TOUCHPAD_COLS - 1) :
        /\ Bit(port, col) = 1
        /\ \A below \in 0..(col - 1) : Bit(port, below) = 0

HighestCol(port) ==
    CHOOSE col \in 0..(TOUCHPAD_COLS - 1) :
        /\ Bit(port, col) = 1
        /\ \A beyond \in (col + 1)..(TOUCHPAD_COLS - 1) : Bit(port, beyond) = 0

\* a port B read made while scanning is enabled runs get_touchpad_pressed
ScanStep == op' = "i8255_portb_r" /\ HasBit(m_port_1d, 1)

\* C10 as stated: with at least one touched cell, the scan returns true (the
\* pressed bit of port B reads 0) and samples the lowest-indexed row with any
\* bit set and the lowest set bit of that row.  Violated: the bit loop of
\* get_touchpad_pressed ends at the highest set bit of the row.
C10_LowestColumnSampled ==
    [][ (ScanStep /\ AnyTouched) =>
          /\ ~HasBit(ret', 2)
          /\ m_touchpad_y' = tp_y[FirstTouchedRow + 1]
          /\ m_touchpad_x' = tp_x[LowestCol(m_port_tp[FirstTouchedRow]) + 1]
      ]_vars

\* C10 as amended: with at least one touched cell, the scan returns true and
\* samples the lowest-indexed row with any bit set and the highest set bit of
\* that row (with several bits set in that row, the largest column index wins).
C10_HighestColumnSampled ==
    [][ (ScanStep /\ AnyTouched) =>
          /\ ~HasBit(ret', 2)
          /\ m_touchpad_y' = tp_y[FirstTouchedRow + 1]
          /\ m_touchpad_x' = tp_x[HighestCol(m_port_tp[FirstTouchedRow]) + 1]
      ]_vars

\* C10 witness: a scan with columns 0 and 23 of row 1 touched has sampled
\* column 23 of row 1.
C10_Witness ==
    /\ op = "i8255_portb_r"
    /\ HasBit(m_port_1d, 1)
    /\ m_port_tp[0] = 0
    /\ Bit(m_port_tp[1], 0) = 1
    /\ Bit(m_port_tp[1], TOUCHPAD_COLS - 1) = 1
    /\ m_touchpad_x = 250
    /\ m_touchpad_y = 18
    /\ ~HasBit(ret, 2)

---------------------------------------------------------------------------
(* Properties of the touchpad scanner and its registers, under SpecTouch *)

\* the matrix with exactly the cell (row, col) touched
OnlyTouched(row, col) ==
    m_port_tp = [r \in 0..(TOUCHPAD_ROWS - 1) |-> IF r = row THEN 2 ^ col ELSE 0]

\* C11: with exactly one cell (r, c) touched, get_touchpad_pressed returns true
\* (the pressed bit of port B reads 0) and leaves sampledX = tp_x[c] and
\* sampledY = tp_y[r]; the corner cells give (5, 6) and (250, 249).  With no
\* cell touched it returns false (the bit reads 1) and leaves both coordinates
\* as they were.
C11_CoordinateTables ==
    [][ ScanStep =>
          /\ \A row \in 0..(TOUCHPAD_ROWS - 1), col \in 0..(TOUCHPAD_COLS - 1) :
                OnlyTouched(row, col) =>
                   /\ ~HasBit(ret', 2)
                   /\ m_touchpad_x' = tp_x[col + 1]
                   /\ m_touchpad_y' = tp_y[row + 1]
          /\ OnlyTouched(0, 0) => (m_touchpad_x' = 5 /\ m_touchpad_y' = 6)
          /\ OnlyTouched(TOUCHPAD_ROWS - 1, TOUCHPAD_COLS - 1) =>
                (m_touchpad_x' = 250 /\ m_touchpad_y' = 249)
          /\ ~AnyTouched =>
                (HasBit(ret', 2) /\ UNCHANGED <<m_touchpad_x, m_touchpad_y>>)
      ]_vars

\* a scan has just sampled the far corner cell, the only one touched
C11_Witness ==
    /\ op = "i8255_portb_r"
    /\ HasBit(m_port_1d, 1)
    /\ OnlyTouched(TOUCHPAD_ROWS - 1, TOUCHPAD_COLS - 1)
    /\ ~HasBit(ret, 2)
    /\ m_touchpad_x = 250
    /\ m_touchpad_y = 249

\* C12: a read of port 0x1e returns sampledY when bit 0 of the byte last written
\* to port 0x1c is set and sampledX otherwise; it runs no scan and changes no
\* state, so reads repeated without a scanning port B read in between keep
\* returning the coordinates of the last successful scan, whatever has happened
\* to the matrix since.
C12_CoordinateRead ==
    [][ op' = "port1e_r" =>
          /\ ret' = IF Bit(m_port_1c, 0) = 1 THEN m_touchpad_y ELSE m_touchpad_x
          /\ UNCHANGED <<irqVars, m_upd7759_ctrl, touchVars>>
          /\ (op = "port1e_r" /\ Bit(m_port_1c, 0) = 1) => ret' = ret
      ]_vars

\* port 0x1e is read after the far corner cell was sampled and then released:
\* the row coordinate of that scan is still returned
C12_Witness ==
    /\ op = "port1e_r"
    /\ Bit(m_port_1c, 0) = 1
    /\ ~AnyTouched
    /\ m_touchpad_x = 250
    /\ ret = 249

\* C13: a read of 8255 port B made while bit 0 of the byte last written to port
\* 0x1d is set returns bit 2 = 1 and bit 1 = NOT isPressed(); made while that bit
\* is clear it returns bit 2 = 0 and bit 1 = 1 whatever the matrix holds.  Both
\* bits are computed afresh on every read.
C13_StatusBits ==
    [][ op' = "i8255_portb_r" =>
          IF Bit(m_port_1d, 0) = 1
          THEN /\ Bit(ret', 2) = 1
               /\ Bit(ret', 1) = (IF AnyTouched THEN 0 ELSE 1)
          ELSE /\ Bit(ret', 2) = 0
               /\ Bit(ret', 1) = 1
      ]_vars

\* port B is read with scanning disabled while a cell is touched
C13_Witness ==
    /\ op = "i8255_portb_r"
    /\ Bit(m_port_1d, 0) = 0
    /\ AnyTouched
    /\ Bit(ret, 2) = 0
    /\ Bit(ret, 1) = 1

---------------------------------------------------------------------------
(* The acknowledge vector, under Spec *)

\* C16: an irq_callback invocation that returns gives exactly 0xf8 (video) or
\* 0xfb (speech), never 0x00, 0xf9 or 0xfa; when it returns, m_vector equals the
\* value returned, and no other step changes m_vector.
C16_VectorValues ==
    [][ IF op' = "irq_callback" /\ fatal' = "none"
        THEN /\ ret' \in {248, 251}
             /\ ret' = (IF VideoReady THEN 248 ELSE 251)
             /\ m_vector' = ret'
        ELSE m_vector' = m_vector
      ]_vars

\* the speech vector is still stored after a later video line callback
C16_Witness ==
    /\ op = "vdp_interrupt"
    /\ fatal = "none"
    /\ m_vector = 251

---------------------------------------------------------------------------
(* Properties of the speech control port and the 8255 callbacks, under     *)
(* SpecChip                                                                *)

\* the values the handler that has just run passed to m_upd7759-><fn>()
Driven(fn) ==
    {dev_calls'[i].data : i \in {k \in DOMAIN dev_calls' :
                                   /\ dev_calls'[k].dev = "upd7759"
                                   /\ dev_calls'[k].fn = fn}}

\* C17: a write of d to port 0x0b latches d as the speech control register,
\* drives the mode-select line to the inverse of bit 0 of d and the bank-select
\* line to bit 1 of d, so that bits 2-7 reach neither line, and changes neither
\* interrupt mask nor the CPU interrupt line.
C17_SpeechControl ==
    [][ \A d \in Byte :
          (op' = "upd7759_ctrl_w" /\ upd7759_ctrl_w(d)) =>
             /\ m_upd7759_ctrl' = d
             /\ Driven("md_w") = {1 - Bit(d, 0)}
             /\ Driven("set_rom_bank") = {Bit(d, 1)}
             /\ Len(dev_calls') = 2
             /\ UNCHANGED <<m_irq_active, m_irq_enabled, cpu_irq_line>>
      ]_vars

\* 0x04 is written to port 0x0b while the speech interrupt is pending, enabled
\* and asserted: mode-select goes to 1, bank-select to 0
C17_Witness ==
    /\ op = "upd7759_ctrl_w"
    /\ m_upd7759_ctrl = 4
    /\ dev_calls = << DevCall("upd7759", "md_w", 0, 1),
                      DevCall("upd7759", "set_rom_bank", 0, 0) >>
    /\ m_irq_active = IRQ_UPD7759
    /\ m_irq_enabled = IRQ_UPD7759
    /\ cpu_irq_line = ASSERT_LINE

\* C18: upd7759_busy_w, for every busy level and every value of the speech
\* control register, leaves the pending mask, the enable mask, both stored
\* previous levels, the stored vector and the CPU interrupt line unchanged.
C18_BusyIgnored ==
    [][ op' = "upd7759_busy_w" =>
          UNCHANGED <<m_irq_active, m_irq_enabled, m_prev_v9938_irq,
                      m_prev_upd7759_irq, m_vector, cpu_irq_line>>
      ]_vars

\* the busy callback has run with bit 0 of the control register clear while
\* the speech interrupt is enabled and nothing is pending
C18_Witness ==
    /\ op = "upd7759_busy_w"
    /\ Bit(m_upd7759_ctrl, 0) = 0
    /\ m_irq_enabled = IRQ_UPD7759
    /\ m_irq_active = 0
    /\ cpu_irq_line = CLEAR_LINE

\* everything the driver stores, its inputs and the CPU line
DriverState == <<irqVars, m_upd7759_ctrl, touchVars, m_port4, upd7759_busy>>

\* C19: a read of 8255 port A returns a byte whose bit 6 is 1 exactly when
\* busy_r() is non-zero and whose other seven bits are those of the joystick
\* input port; bit 6 of the input port never reaches the result, and the read
\* changes no state.
C19_PortA ==
    [][ op' = "i8255_porta_r" =>
          /\ Bit(ret', 6) = (IF upd7759_busy # 0 THEN 1 ELSE 0)
          /\ \A i \in (0..7) \ {6} : Bit(ret', i) = Bit(m_port4, i)
          /\ ret' \in Byte
          /\ UNCHANGED DriverState
      ]_vars

\* port A is read with busy_r() = 0 and joystick-up held: bit 6 reads 0 although
\* bit 6 of the input port is 1
C19_Witness ==
    /\ op = "i8255_porta_r"
    /\ upd7759_busy = 0
    /\ Bit(m_port4, 6) = 1
    /\ Bit(m_port4, 0) = 0
    /\ ret = 190

\* C20: the port C read callback returns 0xf0 in every state; the port C write
\* callback changes no state for any byte and always returns.
C20_PortC ==
    [][ /\ op' = "i8255_portc_r" => (ret' = 240 /\ UNCHANGED DriverState)
        /\ op' = "i8255_portc_w" => (UNCHANGED DriverState /\ fatal' = "none")
      ]_vars

\* port C is read after 0xff went to the speech control register, with the
\* speech interrupt asserted
C20_Witness ==
    /\ op = "i8255_portc_r"
    /\ ret = 240
    /\ m_upd7759_ctrl = U8_MAX
    /\ cpu_irq_line = ASSERT_LINE

---------------------------------------------------------------------------
(* Properties of the port map, under SpecBus *)

\* C14: every byte written to port 0x0c goes unchanged, in exactly one call, to
\* the sound chip's write register and changes no state of the bus controller;
\* a read of port 0x1f returns 0xff, calls no device and changes no state.
C14_SoundAndIdlePort ==
    [][ /\ \A d \in BusData \cup SoundData :
              io_write(12, d) =>
                 /\ dev_calls' = <<DevCall("sn76489a", "write", 0, d)>>
                 /\ UNCHANGED DriverState
        /\ \A reply \in BusData :
              io_read(31, reply) =>
                 /\ ret' = 255
                 /\ dev_calls' = <<>>
                 /\ UNCHANGED DriverState
      ]_vars

\* 0xff has gone to the sound chip while the video interrupt is asserted and
\* the row coordinate is selected
C14_Witness ==
    /\ dev_calls = <<DevCall("sn76489a", "write", 0, U8_MAX)>>
    /\ cpu_irq_line = ASSERT_LINE
    /\ m_port_1c = 1

\* the ports inside one of the windows listed for the port map
Windows == (0..9) \cup {11, 12, 20, 21, 22, 23, 28, 29, 30} \cup (32..63)

\* every port and access kind is decoded by at most one entry of io_map, and
\* the ports that have a handler are the listed windows
MapIsFunction ==
    /\ \A port \in Byte, kind \in {"r", "w"} : Cardinality(MapDecodes(port, kind)) <= 1
    /\ {port \in Byte : MapDecodes(port, "w") # {}} = Windows
    /\ {port \in Byte : MapDecodes(port, "r") # {}} \subseteq Windows
    /\ MapDecodes(20, "w") = MapDecodes(21, "w")

\* C15: the port map is a function: each port 0x00..0xff and access kind has at
\* most one handler, the listed windows do not overlap, and the expansion
\* window hands the low five address bits to the slot as offset.  A write to a
\* port outside the windows leaves the whole state unchanged, and a read of
\* such a port returns the all-bits-set value.
C15_PortMap ==
    [][ /\ MapIsFunction
        /\ \A port \in BusPorts \cap (32..63), d \in BusData :
              /\ io_write(port, d) =>
                    dev_calls' = <<DevCall("exp", "write_io", port % 32, d)>>
              /\ io_read(port, d) =>
                    dev_calls' = <<DevCall("exp", "read_io", port % 32, 0)>>
        /\ \A port \in BusPorts \ Windows, d \in BusData :
              /\ io_write(port, d) =>
                    (dev_calls' = <<>> /\ UNCHANGED DriverState)
              /\ io_read(port, d) =>
                    (ret' = 255 /\ dev_calls' = <<>> /\ UNCHANGED DriverState)
      ]_vars

\* a port outside the windows is written while the video interrupt is enabled
\* and asserted and touchpad scanning is switched on
C15_Witness ==
    /\ op = "unmapped_w"
    /\ m_irq_enabled = 1
    /\ cpu_irq_line = ASSERT_LINE
    /\ m_port_1d = 1

---------------------------------------------------------------------------
(* Further properties of the interrupt controller, under Spec *)

\* `mask` with bit `pin` replaced by `b`
ReplaceBit(mask, pin, b) == mask - Bit(mask, pin) * (2 ^ pin) + b * (2 ^ pin)

\* C21: a read of port 0x16 returns the current enable mask and has no side
\* effect.  The mask is m after irq_enable_w(m), and the previous mask with bit
\* ((v >> 1) & 7) replaced by (v & 1) after irq_select_w(v); the line callbacks
\* and the acknowledge never change it.
C21_EnableReadback ==
    [][ /\ op' = "irq_enable_r" =>
              (ret' = m_irq_enabled /\ UNCHANGED DriverState)
        /\ \A m \in EnableData :
              irq_enable_w(m) => m_irq_enabled' = m
        /\ \A v \in SelectData :
              irq_select_w(v) =>
                 m_irq_enabled' = ReplaceBit(m_irq_enabled, (v \div 2) % 8, v % 2)
        /\ op' \in {"vdp_interrupt", "upd7759_drq_w", "upd7759_busy_w", "irq_callback"} =>
              m_irq_enabled' = m_irq_enabled
      ]_vars

\* port 0x16 reads 0x0d with the video interrupt pending and the line asserted
C21_Witness ==
    /\ op = "irq_enable_r"
    /\ ret = 13
    /\ m_irq_enabled = 13
    /\ m_irq_active = IRQ_V9938
    /\ cpu_irq_line = ASSERT_LINE

\* an irq_callback invocation that returns
AckReturns == op' = "irq_callback" /\ fatal' = "none"

\* the pending bit of the source a vector belongs to
SourceOf(vector) == IF vector = VECTOR_V9938 THEN IRQ_V9938 ELSE IRQ_UPD7759

\* C22: an irq_callback that returns clears exactly one bit of the pending mask,
\* the bit of the source whose vector it returns, and leaves the other source's
\* pending bit, the enable mask, both stored previous levels, the touchpad
\* registers and the sampled coordinates unchanged.
C22_AckFrame ==
    [][ AckReturns =>
          /\ HasBit(m_irq_active, SourceOf(ret'))
          /\ m_irq_active' = m_irq_active - SourceOf(ret')
          /\ UNCHANGED <<m_irq_enabled, m_prev_v9938_irq, m_prev_upd7759_irq,
                         touchVars>>
      ]_vars

\* the video source has been acknowledged and the speech bit is still pending
C22_Witness ==
    /\ op = "irq_callback"
    /\ ret = VECTOR_V9938
    /\ m_irq_active = IRQ_UPD7759
    /\ m_irq_enabled = 9
    /\ cpu_irq_line = ASSERT_LINE

\* C23: a pending source whose enable bit is clear is never acknowledged.  With
\* video pending but disabled and speech pending and enabled irq_callback
\* returns 0xfb, clears only the speech bit and leaves video pending, and the
\* other way round; no irq_callback clears a pending bit whose enable bit is
\* clear when it is called.
C23_DisabledNotAcked ==
    [][ op' = "irq_callback" =>
          /\ \A src \in {IRQ_V9938, IRQ_UPD7759} :
                (HasBit(m_irq_active, src) /\ ~HasBit(m_irq_enabled, src)) =>
                   HasBit(m_irq_active', src)
          /\ ( /\ HasBit(m_irq_active, IRQ_V9938) /\ ~HasBit(m_irq_enabled, IRQ_V9938)
               /\ SpeechReady ) =>
                 (ret' = 251 /\ m_irq_active' = IRQ_V9938 /\ fatal' = "none")
          /\ ( /\ HasBit(m_irq_active, IRQ_UPD7759) /\ ~HasBit(m_irq_enabled, IRQ_UPD7759)
               /\ VideoReady ) =>
                 (ret' = 248 /\ m_irq_active' = IRQ_UPD7759 /\ fatal' = "none")
      ]_vars

\* speech has been acknowledged while video stays pending and disabled
C23_Witness ==
    /\ op = "irq_callback"
    /\ ret = VECTOR_UPD7759
    /\ m_irq_active = IRQ_V9938
    /\ ~HasBit(m_irq_enabled, IRQ_V9938)
    /\ HasBit(m_irq_enabled, IRQ_UPD7759)
    /\ fatal = "none"

\* the pending mask after the acknowledge irq_callback performs on it
AfterAck(active, enabled) ==
    IF HasBit(BitAnd(active, enabled), IRQ_V9938)
    THEN BitClear(active, IRQ_V9938)
    ELSE BitClear(active, IRQ_UPD7759)

\* at most `calls` returning irq_callback calls in a row, with nothing in
\* between, end with pending & enabled = 0 and the CPU line not asserted
RECURSIVE Drains(_, _, _, _)
Drains(active, enabled, line, calls) ==
    IF BitAnd(active, enabled) = 0
    THEN line = CLEAR_LINE
    ELSE /\ calls > 0
         /\ BitAnd(BitAnd(active, enabled), IRQ_V9938 + IRQ_UPD7759) # 0
         /\ Drains(AfterAck(active, enabled), enabled,
                   update_irq_state(AfterAck(active, enabled), enabled), calls - 1)

\* C24: from every reachable state at most two consecutive returning
\* irq_callback calls, with no line callback and no enable write in between,
\* reach a state with pending & enabled = 0 and the CPU line deasserted.
\* Violated: a port 0x16 / 0x17 write that disables the last pending source
\* leaves the line asserted with nothing left to acknowledge.
C24_DrainsInTwo ==
    Drains(m_irq_active, m_irq_enabled, cpu_irq_line, 2)

\* C28: an irq_callback made while the level last driven onto the CPU input is
\* ASSERT never reaches fatalerror().  Violated: after a port 0x16 / 0x17 write
\* has disabled the pending source the line is still asserted, and the
\* acknowledge finds nothing pending and enabled.
C28_AckOnAssertNeverFatal ==
    [][ (op' = "irq_callback" /\ cpu_irq_line = ASSERT_LINE) => fatal' = "none" ]_vars

\* C27: in every reachable state m_irq_active has no bit set outside 0x09,
\* whatever is written to the enable mask, so the "Unknown irq triggered"
\* fatalerror is never reached: the only fatal outcome is an acknowledge made
\* with pending & enabled = 0.
C27_PendingWithinSources ==
    /\ BitAnd(m_irq_active, U8_MAX - 9) = 0
    /\ m_irq_active \in Byte
    /\ fatal \in {"none", "no_irq"}
    /\ fatal = "no_irq" => BitAnd(m_irq_active, m_irq_enabled) = 0

\* an acknowledge came with both sources pending and only bits outside 0x09
\* enabled
C27_Witness ==
    /\ fatal = "no_irq"
    /\ m_irq_active = 9
    /\ m_irq_enabled = 6

\* C29: the speech chip's data-request line is active low at the latch: raw
\* state 0 is stored as asserted and non-zero as not asserted, so bit 0x08
\* becomes pending exactly when a callback with raw state 0 finds the stored
\* level not asserted (after a non-zero callback, or first after machine_start)
\* and never on a callback with a non-zero raw state; the video callback takes
\* a non-zero raw state as asserted.
C29_DrqActiveLow ==
    [][ /\ \A state \in LineStates :
              (op' = "upd7759_drq_w" /\ upd7759_drq_w(state)) =>
                 /\ (m_prev_upd7759_irq' = ASSERT_LINE) <=> (state = 0)
                 /\ (m_prev_upd7759_irq' = CLEAR_LINE) <=> (state # 0)
                 /\ (~HasBit(m_irq_active, IRQ_UPD7759) /\ HasBit(m_irq_active', IRQ_UPD7759))
                       <=> ( /\ state = 0
                             /\ m_prev_upd7759_irq = CLEAR_LINE
                             /\ ~HasBit(m_irq_active, IRQ_UPD7759) )
                 /\ state # 0 => m_irq_active' = m_irq_active
        /\ \A state \in LineStates :
              (op' = "vdp_interrupt" /\ vdp_interrupt(state)) =>
                 (~HasBit(m_irq_active, IRQ_V9938) /\ HasBit(m_irq_active', IRQ_V9938))
                    <=> ( /\ state # 0
                          /\ m_prev_v9938_irq = CLEAR_LINE
                          /\ ~HasBit(m_irq_active, IRQ_V9938) )
      ]_vars

\* the first speech callback after machine_start came with raw state 0 and
\* latched the speech bit
C29_Witness ==
    /\ op = "upd7759_drq_w"
    /\ m_prev_upd7759_irq = ASSERT_LINE
    /\ m_irq_active = IRQ_UPD7759
    /\ m_irq_enabled = 0
    /\ m_vector = 0

---------------------------------------------------------------------------
(* Further properties of 8255 port B, under SpecTouch *)

\* C30: every read of 8255 port B returns bits 7..3 = 01011 and bit 0 equal to
\* bit 0 of the grey button's input port; bits 1 and 2 depend on the scanning
\* enable and the matrix at the time of the read only, not on what earlier
\* reads returned.
C30_PortBPattern ==
    [][ op' = "i8255_portb_r" =>
          /\ <<Bit(ret', 7), Bit(ret', 6), Bit(ret', 5), Bit(ret', 4), Bit(ret', 3)>>
                = <<0, 1, 0, 1, 1>>
          /\ Bit(ret', 0) = Bit(m_port5, 0)
          /\ <<Bit(ret', 2), Bit(ret', 1)>> =
                (IF Bit(m_port_1d, 0) = 0 THEN <<0, 1>>
                 ELSE IF AnyTouched THEN <<1, 0>> ELSE <<1, 1>>)
      ]_vars

\* port B is read with the grey button down, scanning enabled and a cell
\* touched: 0101 1100
C30_Witness ==
    /\ op = "i8255_portb_r"
    /\ Bit(m_port5, 0) = 0
    /\ Bit(m_port_1d, 0) = 1
    /\ AnyTouched
    /\ ret = 92

---------------------------------------------------------------------------
(* Properties of the touchpad registers, under SpecLatch *)

\* C25: a write to port 0x1c, 0x1d or 0x1e stores the byte in its own register
\* and changes neither the other two registers, the sampled coordinates, the
\* interrupt masks nor the CPU line; a read of port 0x1e returns a sampled
\* coordinate and not the byte written to port 0x1e.
C25_PureLatches ==
    [][ /\ \A data \in LatchData :
              /\ (op' = "port1c_w" /\ port1c_w(data)) =>
                    /\ m_port_1c' = data
                    /\ UNCHANGED <<m_port_1d, m_port_1e>>
              /\ (op' = "port1d_w" /\ port1d_w(data)) =>
                    /\ m_port_1d' = data
                    /\ UNCHANGED <<m_port_1c, m_port_1e>>
              /\ (op' = "port1e_w" /\ port1e_w(data)) =>
                    /\ m_port_1e' = data
                    /\ UNCHANGED <<m_port_1c, m_port_1d>>
        /\ op' \in {"port1c_w", "port1d_w", "port1e_w"} =>
              UNCHANGED <<m_touchpad_x, m_touchpad_y, m_i8255_portb, inputs,
                          irqVars>>
        /\ op' = "port1e_r" =>
              ret' = (IF Bit(m_port_1c, 0) = 1 THEN m_touchpad_y ELSE m_touchpad_x)
      ]_vars

\* port 0x1e reads the sampled column coordinate 250 while its latch holds 1
C25_Witness ==
    /\ op = "port1e_r"
    /\ m_port_1e = 1
    /\ m_port_1c = 0
    /\ m_touchpad_x = 250
    /\ ret = 250

\* C26: the sampled coordinates change only in a read of 8255 port B made with
\* scanning enabled and at least one cell touched, which writes both of them
\* from the same cell; a port B read with scanning disabled and every other
\* operation leave both unchanged.
C26_CoordinatesOnlyByScan ==
    [][ IF ScanStep /\ AnyTouched
        THEN /\ m_touchpad_y' = tp_y[FirstTouchedRow + 1]
             /\ m_touchpad_x' = tp_x[HighestCol(m_port_tp[FirstTouchedRow]) + 1]
        ELSE UNCHANGED <<m_touchpad_x, m_touchpad_y>>
      ]_vars

\* the far corner was sampled, then released, scanning was switched off, the
\* near corner was touched and port B was read: the far corner is still held
C26_Witness ==
    /\ op = "i8255_portb_r"
    /\ Bit(m_port_1d, 0) = 0
    /\ OnlyTouched(0, 0)
    /\ m_touchpad_x = 250
    /\ m_touchpad_y = 249

===========================================================================
